---- MODULE Spec2Model ----
(***************************************************************************)
(* Model of WignerBlochFFTW1D (src/wigner_bloch_fftw_1d.py): the           *)
(* constructor (temperature schedule, kernel construction) and             *)
(* get_gibbs_state().                                                      *)
(*                                                                         *)
(* Numbers.  The program computes in IEEE-754 binary floating point.  The  *)
(* model keeps that arithmetic but with a significand of MantBits bits     *)
(* instead of 53: a float is a pair <<m, e>> of value m * 2^e with         *)
(* m = 0, e = 0 or 2^(MantBits-1) <= |m| < 2^MantBits, and every           *)
(* operation rounds its exact result to the nearest float, ties to even.   *)
(* The exponent is not bounded: the inputs stay far from overflow, and     *)
(* only exp() underflows.  kT and dbeta are Python floats, dbeta > 0.      *)
(*                                                                         *)
(* The engine.  The parent class WignerMoyalFTTW1D (the grid, the          *)
(* absorbing boundary, set_wignerfunction, propagate) is not among the     *)
(* sources; it is modelled from its description: propagate(n) takes n      *)
(* split-operator steps, each reading the two kernels through get_exp_v    *)
(* and get_exp_k at the current time and advancing the time by dt.  A      *)
(* distribution is kept as the array it was set to and the kernels of the  *)
(* steps taken since, so two distributions with the same history are the   *)
(* same array.                                                             *)
(***************************************************************************)
EXTENDS Integers, Sequences, FiniteSets, TLC

\* ------------------------------------------------------------------------
\* Bounds of the model
\* ------------------------------------------------------------------------
\* bits of the significand of a float
MantBits == 4
\* the floats drawn as inputs have a leading exponent in -ExpSpan .. ExpSpan-1
ExpSpan == 2
\* exp() underflows to 0 below 2^-UnderflowExp
UnderflowExp == 8

\* ------------------------------------------------------------------------
\* Floating point
\* ------------------------------------------------------------------------
RECURSIVE Pow2(_)
Pow2(n) == IF n <= 0 THEN 1 ELSE 2 * Pow2(n - 1)

Abs(i) == IF i < 0 THEN -i ELSE i
Sgn(i) == IF i < 0 THEN -1 ELSE 1

\* the significands are MantLow .. MantHigh - 1
MantLow == Pow2(MantBits - 1)
MantHigh == Pow2(MantBits)

Zero == <<0, 0>>
One == <<MantLow, 1 - MantBits>>
Half == <<MantLow, 0 - MantBits>>

\* the float nearest to (num / den) * 2^e, for num, den > 0 (ties to even)
RECURSIVE RoundQ(_, _, _)
RoundQ(num, den, e) ==
    IF num < den * MantLow THEN RoundQ(2 * num, den, e - 1)
    ELSE IF num >= den * MantHigh THEN RoundQ(num, 2 * den, e + 1)
    ELSE LET q == num \div den
             r == num % den
             up == (2 * r > den) \/ (2 * r = den /\ q % 2 = 1)
             m == IF up THEN q + 1 ELSE q
         IN  IF m = MantHigh THEN <<MantLow, e + 1>> ELSE <<m, e>>

\* the float nearest to the signed rational (num / den) * 2^e, den > 0
Round(num, den, e) ==
    IF num = 0 THEN Zero
    ELSE LET r == RoundQ(Abs(num), den, e) IN <<Sgn(num) * r[1], r[2]>>

FromInt(n) == Round(n, 1, 0)
FNeg(a) == <<0 - a[1], a[2]>>
FMul(a, b) == Round(a[1] * b[1], 1, a[2] + b[2])
\* a / b for b # 0
FDiv(a, b) == Round(a[1] * Sgn(b[1]), Abs(b[1]), a[2] - b[2])

\* comparisons of floats (exact)
FLess(a, b) ==
    LET lo == IF a[2] < b[2] THEN a[2] ELSE b[2]
    IN  a[1] * Pow2(a[2] - lo) < b[1] * Pow2(b[2] - lo)
FLeq(a, b) == a = b \/ FLess(a, b)
FPos(a) == a[1] > 0

\* a - b, rounded
FSub(a, b) ==
    LET lo == IF a[2] < b[2] THEN a[2] ELSE b[2]
    IN  Round(a[1] * Pow2(a[2] - lo) - b[1] * Pow2(b[2] - lo), 1, lo)
FAdd(a, b) == FSub(a, FNeg(b))

\* whether the float has an integral value, and that value
IsIntegral(a) == a[2] >= 0 \/ a[1] % Pow2(0 - a[2]) = 0
IntOf(a) == IF a[2] >= 0 THEN a[1] * Pow2(a[2]) ELSE a[1] \div Pow2(0 - a[2])

\* Python 2's round(): to the nearest integer, halves away from zero; a float
PyRound(a) ==
    IF a[2] >= 0 THEN a
    ELSE LET d == Pow2(0 - a[2])
             n == (2 * Abs(a[1]) + d) \div (2 * d)
         IN  FromInt(Sgn(a[1]) * n)

\* whether |a - 1| <= k * 2^-MantBits (k units of rounding error)
NearOne(a, k) ==
    LET s == IF a[2] + MantBits < 0 THEN 0 - (a[2] + MantBits) ELSE 0
    IN  Abs(a[1] * Pow2(a[2] + MantBits + s) - Pow2(MantBits + s)) <= k * Pow2(s)

\* exp(a).  The library function is modelled by the interpolation of 2^x
\* that is exact at the integers and linear between them, rounded to a
\* float: exp(0) = 1 exactly, it is monotone, it rounds, and below
\* 2^-UnderflowExp it underflows to 0.
Exp(a) ==
    LET m == Abs(a[1])
        d == IF a[2] < 0 THEN Pow2(0 - a[2]) ELSE 1
        w == IF a[2] < 0 THEN m ELSE m * Pow2(a[2])
        n == w \div d
        fr == w % d
    IN  IF a[1] = 0 THEN One
        ELSE IF a[1] < 0
             THEN IF n >= UnderflowExp THEN Zero ELSE Round(2 * d - fr, 2 * d, 0 - n)
             ELSE Round(d + fr, d, n)

\* ------------------------------------------------------------------------
\* The phase-space grid and the absorbing boundary (set up by the parent
\* class WignerMoyalFTTW1D)
\* ------------------------------------------------------------------------
\* points per axis
GridDim == 2

Axis == 1 .. GridDim
Cells == Axis \X Axis
Coord(k) == k - 1 - (GridDim \div 2)

X == [c \in Cells |-> FromInt(Coord(c[2]))]
Theta == [c \in Cells |-> FromInt(2 * Coord(c[1]))]
P == [c \in Cells |-> FromInt(Coord(c[1]))]
Lambda == [c \in Cells |-> FromInt(2 * Coord(c[2]))]

\* the absorbing-boundary mask: all ones, or damping the cells of the first column
abs_boundary(mask) ==
    [c \in Cells |-> IF mask = "edges" /\ c[2] = 1 THEN Half ELSE One]

\* the smallest element of an array over the grid
ArrayMin(arr) ==
    LET vals == {arr[c] : c \in Cells}
    IN  CHOOSE v \in vals : \A w \in vals : FLeq(v, w)

\* ------------------------------------------------------------------------
\* The Hamiltonian H = K(p) + V(x) given to the constructor
\* ------------------------------------------------------------------------
\* coefficient of the steep term
SteepCoef == 64

\* a term of the Hamiltonian: its shape, and whether the callable needs an
\* explicit time argument
Terms == [kind : {"quad", "lin", "steep"}, timedep : BOOLEAN]

\* the value of the term f at x (and time tt, for a term that takes the time)
Energy(f, x, tt) ==
    LET base == CASE f.kind = "quad" -> FMul(Half, FMul(x, x))
                  [] f.kind = "lin" -> FSub(x, FromInt(3))
                  [] OTHER -> FMul(FromInt(SteepCoef), FMul(x, x))
    IN  IF f.timedep THEN FAdd(base, FMul(FromInt(tt), x)) ELSE base

\* value of inverse temperature increment when the caller gives none: 0.01
DefaultDbetaDen == 100
DefaultDbeta == Round(1, DefaultDbetaDen, 0)

VARIABLES
    kwargs,          \* the keyword arguments of the constructor
    pc,              \* where the object is in its life
    attrs,           \* the attributes that exist on the object
    kT, dbeta, num_beta_steps,
    isEhrenfest,
    t,               \* the engine's current time, in units of dt
    _expV, _expK,    \* the cached kernels
    out,             \* the diagnostics printed so far
    err,             \* the exception that ended construction, "" if none
    wignerfunction,  \* the engine's distribution: what it was set to and the steps since
    call,            \* the last method call: its steps left and done, whether it is still
                     \* running, and the distribution it found
    ret,             \* what the last call returned
    log              \* what each completed get_gibbs_state() returned

vars == <<kwargs, pc, attrs, kT, dbeta, num_beta_steps, isEhrenfest, t, _expV, _expK,
          out, err, wignerfunction, call, ret, log>>

ZeroArray == [c \in Cells |-> Zero]
NoWigner == [base |-> ZeroArray, steps |-> <<>>]
NoCall == [op |-> "none", left |-> 0, done |-> 0, active |-> FALSE, before |-> NoWigner]

\* ------------------------------------------------------------------------
\* WignerBlochFFTW1D.__init__
\* ------------------------------------------------------------------------
\* a constructor that never misses the temperature
HasTemperature_Assumed == TRUE

\* line 23: whether kwargs['kT'] exists
HasTemperature == kwargs.hasKT

\* lines 22-25: the temperature is required
ReadKT ==
    /\ pc = "kT"
    /\ IF HasTemperature
       THEN /\ kT' = kwargs.kT
            /\ attrs' = attrs \cup {"kT"}
            /\ pc' = "schedule"
            /\ err' = err
       ELSE /\ err' = "AttributeError"
            /\ pc' = "failed"
            /\ UNCHANGED <<kT, attrs>>
    /\ UNCHANGED <<kwargs, dbeta, num_beta_steps, isEhrenfest, t, _expV, _expK, out,
                   wignerfunction, call, ret, log>>

\* line 35: the number of dbeta steps to reach the Gibbs state
RawSteps(temp, db) == FDiv(One, FMul(temp, db))
\* line 37
NeedsAdjust(temp, db) == PyRound(RawSteps(temp, db)) # RawSteps(temp, db)
\* line 39
RoundedSteps(temp, db) == PyRound(RawSteps(temp, db))
\* an adjustment that forgets the temperature
AdjustedDbeta_NoTemperature(temp, steps) == FDiv(One, steps)

\* line 40
AdjustedDbeta(temp, steps) == FDiv(One, FMul(temp, steps))

\* lines 27-45: the temperature schedule
ResolveSchedule ==
    /\ pc = "schedule"
    /\ IF FPos(kT)
       THEN LET db == IF kwargs.hasDbeta THEN kwargs.dbeta ELSE DefaultDbeta
            IN  IF NeedsAdjust(kT, db)
                THEN IF RoundedSteps(kT, db) = Zero
                     THEN \* line 40 divides by zero
                          /\ dbeta' = db
                          /\ num_beta_steps' = 0
                          /\ attrs' = attrs \cup {"dbeta", "num_beta_steps"}
                          /\ err' = "ZeroDivisionError"
                          /\ pc' = "failed"
                     ELSE /\ dbeta' = AdjustedDbeta(kT, RoundedSteps(kT, db))
                          /\ num_beta_steps' = IntOf(RoundedSteps(kT, db))
                          /\ attrs' = attrs \cup {"dbeta", "num_beta_steps"}
                          /\ err' = err
                          /\ pc' = "parent"
                ELSE /\ dbeta' = db
                     /\ num_beta_steps' = IntOf(RawSteps(kT, db))
                     /\ attrs' = attrs \cup {"dbeta", "num_beta_steps"}
                     /\ err' = err
                     /\ pc' = "parent"
       ELSE \* line 45 calls NotImplemented, which is not callable
            /\ err' = "TypeError"
            /\ pc' = "failed"
            /\ UNCHANGED <<dbeta, num_beta_steps, attrs>>
    /\ UNCHANGED <<kwargs, kT, isEhrenfest, t, _expV, _expK, out,
                   wignerfunction, call, ret, log>>

\* lines 48-51: WignerMoyalFTTW1D.__init__(self, **kwargs) with dt = dbeta.  The
\* engine keeps the time, and computes the Ehrenfest theorems when the caller
\* gave what they need (diff_K, diff_V).
InitParent ==
    /\ pc = "parent"
    /\ t' = kwargs.t
    /\ isEhrenfest' = kwargs.ehrenfest
    /\ attrs' = attrs \cup {"t", "dt", "isEhrenfest", "abs_boundary", "wignerfunction"}
    /\ pc' = "flag"
    /\ UNCHANGED <<kwargs, kT, dbeta, num_beta_steps, _expV, _expK, out, err,
                   wignerfunction, call, ret, log>>

\* a constructor that keeps the flag the engine set
EhrenfestFlag_Kept == isEhrenfest

\* line 54
EhrenfestFlag == FALSE

\* lines 53-54: the Ehrenfest theorems are not calculated
DisableEhrenfest ==
    /\ pc = "flag"
    /\ isEhrenfest' = EhrenfestFlag
    /\ pc' = "V_sum"
    /\ UNCHANGED <<kwargs, attrs, kT, dbeta, num_beta_steps, t, _expV, _expK, out, err,
                   wignerfunction, call, ret, log>>

\* lines 66, 72: V(X - Theta/2) + V(X + Theta/2), at time tt when V takes the time
EnergySumV(v, tt) ==
    [c \in Cells |-> FAdd(Energy(v, FSub(X[c], FMul(Half, Theta[c])), tt),
                          Energy(v, FAdd(X[c], FMul(Half, Theta[c])), tt))]

\* lines 87, 93: K(P + Lambda/2) + K(P - Lambda/2)
EnergySumK(k, tt) ==
    [c \in Cells |-> FAdd(Energy(k, FAdd(P[c], FMul(Half, Lambda[c])), tt),
                          Energy(k, FSub(P[c], FMul(Half, Lambda[c])), tt))]

\* lines 67, 88: a call without the time raises TypeError when the term needs it
RaisesTypeError(f) == f.timedep
\* a fallback one increment late
FallbackTime_Next == t + 1

\* lines 72, 93: the time the term is then evaluated at
FallbackTime == t

\* kernels without the subtraction of the minimum
Stabilized_Skipped(arr) == arr

\* lines 74, 95: arr -= arr.min()
Stabilized(arr) == LET least == ArrayMin(arr) IN [c \in Cells |-> FSub(arr[c], least)]
\* line 75: the factor of the potential kernel
CoefV(db) == FMul(FNeg(db), Half)
\* line 96: the factor of the kinetic kernel
CoefK(db) == FNeg(db)
\* lines 75-76, 96-97: arr *= coef; exp(arr, out=arr)
Exponentiated(arr, coef) == [c \in Cells |-> Exp(FMul(arr[c], coef))]
\* line 79: arr *= abs_boundary
Masked(arr, mask) == [c \in Cells |-> FMul(arr[c], abs_boundary(mask)[c])]

\* lines 65-72
SumV ==
    /\ pc = "V_sum"
    /\ _expV' = EnergySumV(kwargs.V, FallbackTime)
    /\ out' = IF RaisesTypeError(kwargs.V) THEN Append(out, "V") ELSE out
    /\ attrs' = attrs \cup {"_expV"}
    /\ pc' = "V_min"
    /\ UNCHANGED <<kwargs, kT, dbeta, num_beta_steps, isEhrenfest, t, _expK, err,
                   wignerfunction, call, ret, log>>

\* line 74
StabilizeV ==
    /\ pc = "V_min"
    /\ _expV' = Stabilized(_expV)
    /\ pc' = "V_exp"
    /\ UNCHANGED <<kwargs, attrs, kT, dbeta, num_beta_steps, isEhrenfest, t, _expK, out,
                   err, wignerfunction, call, ret, log>>

\* lines 75-76
ExponentiateV ==
    /\ pc = "V_exp"
    /\ _expV' = Exponentiated(_expV, CoefV(dbeta))
    /\ pc' = "V_mask"
    /\ UNCHANGED <<kwargs, attrs, kT, dbeta, num_beta_steps, isEhrenfest, t, _expK, out,
                   err, wignerfunction, call, ret, log>>

\* lines 78-82
MaskV ==
    /\ pc = "V_mask"
    /\ _expV' = Masked(_expV, kwargs.mask)
    /\ attrs' = attrs \cup {"get_exp_v"}
    /\ pc' = "K_sum"
    /\ UNCHANGED <<kwargs, kT, dbeta, num_beta_steps, isEhrenfest, t, _expK, out,
                   err, wignerfunction, call, ret, log>>

\* lines 86-93
SumK ==
    /\ pc = "K_sum"
    /\ _expK' = EnergySumK(kwargs.K, FallbackTime)
    /\ out' = IF RaisesTypeError(kwargs.K) THEN Append(out, "K") ELSE out
    /\ attrs' = attrs \cup {"_expK"}
    /\ pc' = "K_min"
    /\ UNCHANGED <<kwargs, kT, dbeta, num_beta_steps, isEhrenfest, t, _expV, err,
                   wignerfunction, call, ret, log>>

\* line 95
StabilizeK ==
    /\ pc = "K_min"
    /\ _expK' = Stabilized(_expK)
    /\ pc' = "K_exp"
    /\ UNCHANGED <<kwargs, attrs, kT, dbeta, num_beta_steps, isEhrenfest, t, _expV, out,
                   err, wignerfunction, call, ret, log>>

\* lines 96-100
ExponentiateK ==
    /\ pc = "K_exp"
    /\ _expK' = Exponentiated(_expK, CoefK(dbeta))
    /\ attrs' = attrs \cup {"get_exp_k"}
    /\ pc' = "ready"
    /\ UNCHANGED <<kwargs, kT, dbeta, num_beta_steps, isEhrenfest, t, _expV, out,
                   err, wignerfunction, call, ret, log>>

\* ------------------------------------------------------------------------
\* The engine (WignerMoyalFTTW1D) and get_gibbs_state
\* ------------------------------------------------------------------------
\* the last time an object may be constructed at
MaxStartTime == 1
\* the last time a call may reach
MaxTime == 8
\* the most steps a caller asks propagate() for
MaxPropagate == 2

\* the kernels the constructor builds from the terms evaluated at time tt
KernelVAt(tt) ==
    Masked(Exponentiated(Stabilized(EnergySumV(kwargs.V, tt)), CoefV(dbeta)), kwargs.mask)
KernelKAt(tt) == Exponentiated(Stabilized(EnergySumK(kwargs.K, tt)), CoefK(dbeta))

\* an accessor that rebuilds the kernel at the time it is asked for
get_exp_v_Recomputed(tt) == KernelVAt(tt)

\* lines 82, 100: the accessors the engine calls at each step
get_exp_v(tt) == _expV
get_exp_k(tt) == _expK

\* one split-operator step of the engine on the distribution w: the potential
\* kernel, the kinetic kernel between the two transforms, the potential kernel
\* again.  The distribution is kept as what it was set to and the kernels of
\* the steps applied since.
SplitStep(w, ev, ek) == [base |-> w.base, steps |-> Append(w.steps, <<ev, ek>>)]

\* line 108: the initial state lambda _, x, p: 0*x + 0*p + 1.
GibbsInitial ==
    [c \in Cells |-> FAdd(FAdd(FMul(Zero, X[c]), FMul(Zero, P[c])), One)]
\* a get_gibbs_state that keeps the distribution it finds
GibbsStart_Kept == wignerfunction

\* line 108: what set_wignerfunction leaves as the distribution
GibbsStart == [base |-> GibbsInitial, steps |-> <<>>]
\* a get_gibbs_state one step short
GibbsSteps_OneShort == num_beta_steps - 1

\* line 109: the number of steps asked of propagate
GibbsSteps == num_beta_steps

\* a distribution a caller may set: a peak in the first cell
Peak == [c \in Cells |-> IF c = <<1, 1>> THEN One ELSE Zero]
UserStates == {GibbsInitial, Peak}

Idle == pc = "ready" /\ ~call.active

\* lines 107-109: set the initial state, then call propagate
GetGibbsState ==
    /\ Idle
    /\ t + GibbsSteps <= MaxTime
    /\ wignerfunction' = GibbsStart
    /\ call' = [op |-> "get_gibbs_state", left |-> GibbsSteps, done |-> 0, active |-> TRUE,
                before |-> wignerfunction]
    /\ UNCHANGED <<kwargs, pc, attrs, kT, dbeta, num_beta_steps, isEhrenfest, t,
                   _expV, _expK, out, err, ret, log>>

\* a caller's set_wignerfunction(w)
SetWignerfunction ==
    /\ Idle
    /\ \E w \in UserStates : wignerfunction' = [base |-> w, steps |-> <<>>]
    /\ call' = [NoCall EXCEPT !.op = "set_wignerfunction"]
    /\ UNCHANGED <<kwargs, pc, attrs, kT, dbeta, num_beta_steps, isEhrenfest, t,
                   _expV, _expK, out, err, ret, log>>

\* a caller's propagate(n)
Propagate ==
    /\ Idle
    /\ \E n \in 1 .. MaxPropagate :
          /\ t + n <= MaxTime
          /\ call' = [NoCall EXCEPT !.op = "propagate", !.left = n, !.active = TRUE]
    /\ UNCHANGED <<kwargs, pc, attrs, kT, dbeta, num_beta_steps, isEhrenfest, t,
                   _expV, _expK, out, err, wignerfunction, ret, log>>

\* one iteration of the loop of propagate
PropagateStep ==
    /\ call.active
    /\ call.left > 0
    /\ wignerfunction' = SplitStep(wignerfunction, get_exp_v(t), get_exp_k(t))
    /\ t' = t + 1
    /\ call' = [call EXCEPT !.left = @ - 1, !.done = @ + 1]
    /\ UNCHANGED <<kwargs, pc, attrs, kT, dbeta, num_beta_steps, isEhrenfest,
                   _expV, _expK, out, err, ret, log>>

\* propagate returns the distribution; get_gibbs_state returns what it returned
Return ==
    /\ call.active
    /\ call.left <= 0
    /\ ret' = wignerfunction
    /\ log' = IF call.op = "get_gibbs_state" THEN Append(log, wignerfunction) ELSE log
    /\ call' = [call EXCEPT !.active = FALSE]
    /\ UNCHANGED <<kwargs, pc, attrs, kT, dbeta, num_beta_steps, isEhrenfest, t,
                   _expV, _expK, out, err, wignerfunction>>

\* ------------------------------------------------------------------------
\* Specifications
\* ------------------------------------------------------------------------
\* the floats with a leading exponent in -ExpSpan .. ExpSpan-1
InputFloats ==
    {<<m, e - (MantBits - 1)>> :
        m \in MantLow .. MantHigh - 1, e \in (0 - ExpSpan) .. (ExpSpan - 1)}

Quad == [kind |-> "quad", timedep |-> FALSE]

Blank(kw) ==
    /\ kwargs = kw
    /\ pc = "kT"
    /\ attrs = {}
    /\ kT = Zero
    /\ dbeta = Zero
    /\ num_beta_steps = 0
    /\ isEhrenfest = FALSE
    /\ t = 0
    /\ _expV = ZeroArray
    /\ _expK = ZeroArray
    /\ out = <<>>
    /\ err = ""
    /\ wignerfunction = NoWigner
    /\ call = NoCall
    /\ ret = NoWigner
    /\ log = <<>>

\* the temperatures and increments of the life-cycle specification
Temperatures == {FromInt(-1), Zero, Half, One, FromInt(3), FromInt(32)}
Increments == {Round(3, 8, 0), One}

Configurations ==
    {kw \in [hasKT : BOOLEAN, kT : Temperatures, hasDbeta : BOOLEAN, dbeta : Increments,
             V : Terms, K : {f \in Terms : f.kind # "lin"}, t : 0 .. MaxStartTime,
             ehrenfest : BOOLEAN, mask : {"ones", "edges"}] :
        /\ ~kw.hasDbeta => kw.kT \in {FromInt(-1), Zero, FromInt(32)} /\ kw.dbeta = One
        /\ ~kw.hasKT => kw.kT = Zero /\ kw.hasDbeta /\ kw.dbeta = One}

\* the configurations of the life-cycle specification: one shape of Hamiltonian
LifeConfigurations ==
    {kw \in Configurations :
        /\ kw.V.kind = "quad"
        /\ kw.K = Quad
        /\ kw.mask = "edges"}

Init == \E kw \in LifeConfigurations : Blank(kw)

Construct ==
    \/ ReadKT
    \/ ResolveSchedule
    \/ InitParent
    \/ DisableEhrenfest
    \/ SumV
    \/ StabilizeV
    \/ ExponentiateV
    \/ MaskV
    \/ SumK
    \/ StabilizeK
    \/ ExponentiateK

Next ==
    \/ Construct
    \/ GetGibbsState
    \/ SetWignerfunction
    \/ Propagate
    \/ PropagateStep
    \/ Return

Spec == Init /\ [][Next]_vars

\* the constructor alone, over every configuration
KernelInit == \E kw \in Configurations : Blank(kw)

KernelSpec == KernelInit /\ [][Construct]_vars

\* the temperature schedule alone, over every pair of input floats
SchedInit ==
    \E temp \in InputFloats, db \in InputFloats :
        Blank([hasKT |-> TRUE, kT |-> temp, hasDbeta |-> TRUE, dbeta |-> db,
               V |-> Quad, K |-> Quad, t |-> 0, ehrenfest |-> FALSE, mask |-> "ones"])

SchedNext ==
    \/ ReadKT
    \/ ResolveSchedule

SchedSpec == SchedInit /\ [][SchedNext]_vars

\* ------------------------------------------------------------------------
\* Properties
\* ------------------------------------------------------------------------
Started == pc \notin {"kT", "schedule"}
Product == FMul(FMul(FromInt(num_beta_steps), dbeta), kT)
RequestedDbeta == IF kwargs.hasDbeta THEN kwargs.dbeta ELSE DefaultDbeta

\* whether the integer n is a nearest integer to the float a
IsNearestInteger(n, a) ==
    IF a[2] >= 0 THEN n = a[1] * Pow2(a[2])
    ELSE 2 * Abs(a[1] - n * Pow2(0 - a[2])) <= Pow2(0 - a[2])

\* what the schedule is resolved to, whether or not dbeta is adjusted
ScheduleShape ==
    LET raw == RawSteps(kwargs.kT, RequestedDbeta)
    IN  /\ IsNearestInteger(num_beta_steps, raw)
        /\ IsIntegral(raw) => dbeta = RequestedDbeta
        /\ ~IsIntegral(raw) => dbeta = FDiv(One, FMul(kT, FromInt(num_beta_steps)))

\* C1, as stated: once the schedule is resolved, num_beta_steps * dbeta * kT
\* equals 1 exactly, with num_beta_steps the rounded 1/(kT*dbeta) and dbeta
\* recomputed as 1/(kT*num_beta_steps) unless 1/(kT*dbeta) is an integer.
C1_ProductExactlyOne ==
    pc = "parent" => Product = One /\ ScheduleShape

\* C1, amended: once the schedule is resolved, num_beta_steps * dbeta * kT
\* equals 1 to floating-point precision (within 4 units of rounding error,
\* 4 * 2^-MantBits), with num_beta_steps the rounded 1/(kT*dbeta) and dbeta
\* recomputed as 1/(kT*num_beta_steps) unless 1/(kT*dbeta) is an integer.
C1_ProductOneToPrecision ==
    pc = "parent" => NearOne(Product, 4) /\ ScheduleShape

\* C1: a schedule resolved by adjusting dbeta, whose product is not exactly 1
C1_AdjustedInexact ==
    /\ pc = "parent"
    /\ NeedsAdjust(kwargs.kT, RequestedDbeta)
    /\ num_beta_steps >= 2
    /\ Product # One

\* C2: for every kT > 0 and dbeta > 0 the schedule resolution completes and
\* yields an integer num_beta_steps >= 1.
C2_StepsAtLeastOne ==
    (FPos(kwargs.kT) /\ FPos(RequestedDbeta) /\ Started) =>
        pc # "failed" /\ err = "" /\ num_beta_steps >= 1

\* what construction has touched when it fails before the engine is set up
NothingBuilt ==
    /\ attrs \cap {"t", "dt", "isEhrenfest", "abs_boundary", "wignerfunction",
                   "_expV", "_expK", "get_exp_v", "get_exp_k"} = {}
    /\ _expV = ZeroArray
    /\ _expK = ZeroArray
    /\ wignerfunction = NoWigner
    /\ call = NoCall
    /\ log = <<>>

\* C3: without kT, construction ends in the configuration error (AttributeError)
\* before the engine is initialized: no attribute is set, neither kernel
\* exists and no propagation step has run.
C3_MissingTemperature ==
    (~kwargs.hasKT /\ pc # "kT") =>
        pc = "failed" /\ err = "AttributeError" /\ attrs = {} /\ NothingBuilt

\* C3: a construction that failed for want of kT
C3_Failed == pc = "failed" /\ ~kwargs.hasKT

\* C4: with kT <= 0, construction ends in the unsupported-mode error
\* (NotImplementedError): dbeta and num_beta_steps are not resolved, the engine
\* is not initialized, neither kernel is built, the object is never usable.
C4_UnsupportedMode ==
    (kwargs.hasKT /\ ~FPos(kwargs.kT) /\ Started) =>
        pc = "failed" /\ err = "NotImplementedError" /\ attrs = {"kT"} /\ NothingBuilt

Flat == [c \in Cells |-> One]
Cached == <<_expV, _expK>>

\* C5: get_gibbs_state first sets the distribution to 1 on every cell, then
\* advances it one step at a time, num_beta_steps steps in all, each with the
\* cached kernels, and returns the distribution it leaves on the object.
C5_GibbsLifecycle ==
    call.op = "get_gibbs_state" =>
        /\ wignerfunction.base = Flat
        /\ Len(wignerfunction.steps) = call.done
        /\ \A i \in 1 .. call.done : wignerfunction.steps[i] = Cached
        /\ call.left >= 0
        /\ call.done + call.left = num_beta_steps
        /\ ~call.active =>
              /\ call.done = num_beta_steps
              /\ ret = wignerfunction
              /\ log[Len(log)] = wignerfunction

\* C5: a get_gibbs_state of several steps that has returned
C5_Converged ==
    /\ call.op = "get_gibbs_state"
    /\ ~call.active
    /\ num_beta_steps >= 3
    /\ call.before # NoWigner

Diagnostic(f, name) == IF f.timedep THEN <<name>> ELSE <<>>
StartTimes == 0 .. MaxStartTime

\* C6: a V or K that needs the time does not stop construction: the kernel is
\* built from the term at the object's time t and one diagnostic is printed
\* for that term; a term that does not need the time prints nothing and its
\* kernel does not depend on t.
C6_TimeDependence ==
    /\ pc = "failed" => attrs \cap {"t", "_expV", "_expK"} = {}
    /\ pc \in {"V_sum", "V_min", "V_exp", "V_mask", "K_sum", "K_min", "K_exp"} =>
          ENABLED Construct
    /\ pc \in {"V_min", "V_exp", "V_mask", "K_sum"} => out = Diagnostic(kwargs.V, "V")
    /\ pc \in {"K_min", "K_exp", "ready"} =>
          out = Diagnostic(kwargs.V, "V") \o Diagnostic(kwargs.K, "K")
    /\ pc = "ready" =>
          /\ _expV = KernelVAt(kwargs.t)
          /\ _expK = KernelKAt(kwargs.t)
          /\ ~kwargs.V.timedep => \A tt \in StartTimes : _expV = KernelVAt(tt)
          /\ ~kwargs.K.timedep => \A tt \in StartTimes : _expK = KernelKAt(tt)

\* C6: an object built from a V that needs the time, at a time that matters
C6_BuiltAtCurrentTime ==
    /\ pc = "ready"
    /\ kwargs.V.timedep
    /\ ~kwargs.K.timedep
    /\ out = <<"V">>
    /\ kwargs.t = 1
    /\ _expV # KernelVAt(0)

\* C7: on a constructed object the Ehrenfest flag is False, from the end of
\* construction through every step of get_gibbs_state.
C7_EhrenfestOff == pc = "ready" => ~isEhrenfest

\* C7: the last step of a get_gibbs_state on an object given diff_K and diff_V
C7_LastStep ==
    /\ kwargs.ehrenfest
    /\ call.op = "get_gibbs_state"
    /\ call.active
    /\ call.left = 0
    /\ call.done >= 2

RawV == Exponentiated(Stabilized(EnergySumV(kwargs.V, kwargs.t)), CoefV(dbeta))
MinCells(arr) == {c \in Cells : arr[c] = ArrayMin(arr)}
NonNegativeWithZero(arr) ==
    /\ \A c \in Cells : FLeq(Zero, arr[c])
    /\ \E c \in Cells : arr[c] = Zero

Low(strict, v) == IF strict THEN FLess(Zero, v) ELSE FLeq(Zero, v)

\* what C8 says of the kernels; the kernel values are above 0 (strict) or
\* at least 0
KernelShape(strict) ==
    /\ pc = "V_exp" => NonNegativeWithZero(_expV)
    /\ pc = "K_exp" => NonNegativeWithZero(_expK)
    /\ pc = "V_mask" =>
          /\ \A c \in Cells : Low(strict, _expV[c]) /\ FLeq(_expV[c], One)
          /\ \A c \in MinCells(EnergySumV(kwargs.V, kwargs.t)) : _expV[c] = One
    /\ pc = "ready" =>
          /\ \A c \in Cells : Low(strict, _expK[c]) /\ FLeq(_expK[c], One)
          /\ \A c \in MinCells(EnergySumK(kwargs.K, kwargs.t)) : _expK[c] = One
          /\ _expK = KernelKAt(kwargs.t)
    /\ pc = "K_sum" =>
          \A c \in Cells : _expV[c] = FMul(RawV[c], abs_boundary(kwargs.mask)[c])

\* C8, as stated: the stabilized sums are >= 0 and 0 at some cell; the raw
\* potential kernel and the kinetic kernel are 1 at the cells of minimal sum
\* and lie in (0, 1]; the cached potential kernel is the raw one times the
\* mask, and the kinetic kernel is not masked.
C8_KernelsPositive == KernelShape(TRUE)

\* C8, amended: as stated, with the kernels in [0, 1]: a kernel value is 0
\* where the exponential underflows.
C8_KernelsInUnitInterval == KernelShape(FALSE)

\* C8: kernels of a potential with negative energies, the kinetic one underflowing
C8_Underflow ==
    /\ pc = "ready"
    /\ kwargs.V.kind = "lin"
    /\ \E c \in Cells : _expK[c] = Zero
    /\ \E c \in Cells : FLess(Zero, _expV[c]) /\ FLess(_expV[c], Half)

Times == 0 .. MaxTime

\* C9: once an object is constructed its two kernels never change, whatever
\* is called; the accessors return them for every time argument, and every
\* step taken used them.
C9_KernelsCached ==
    /\ [][pc = "ready" => (pc' = "ready" /\ _expV' = _expV /\ _expK' = _expK)]_vars
    /\ [](pc = "ready" =>
            /\ \A tt \in Times : get_exp_v(tt) = _expV /\ get_exp_k(tt) = _expK
            /\ \A i \in 1 .. Len(wignerfunction.steps) : wignerfunction.steps[i] = Cached)

\* C9: a time-dependent V, after two get_gibbs_state calls and other steps
C9_LaterTime ==
    /\ pc = "ready"
    /\ kwargs.V.timedep
    /\ Len(log) >= 2
    /\ t >= kwargs.t + 4
    /\ KernelVAt(t) # _expV

\* C10: every get_gibbs_state returns the same array, the flat state advanced
\* num_beta_steps steps with the cached kernels, whatever distribution the
\* call found.
C10_GibbsRepeatable ==
    \A i \in 1 .. Len(log) :
        /\ log[i] = log[1]
        /\ log[i] = [base |-> Flat, steps |-> [j \in 1 .. num_beta_steps |-> Cached]]

\* C10: a second get_gibbs_state that found a propagated user distribution
C10_SecondCall ==
    /\ Len(log) >= 2
    /\ call.op = "get_gibbs_state"
    /\ ~call.active
    /\ call.before.base = Peak
    /\ Len(call.before.steps) >= 1

====
